---- MODULE Spec2Model ----
(***************************************************************************)
(* Export of a dolomite-engine checkpoint (hybrid attention / mamba2       *)
(* sequence mixers, mixture-of-experts MLPs) to the GraniteMoeHybrid       *)
(* schema: src/dolomite_engine/hf_models/model_conversion/                 *)
(* granitemoesharedhybrid.py.                                              *)
(*                                                                         *)
(* A tensor is a record [shape, data]: data is the row-major list of its   *)
(* elements, and an element of a source tensor is the pair <<name, k>> of  *)
(* the tensor's name and the element's flat position, so that every        *)
(* element of the checkpoint is distinct and an exported tensor shows      *)
(* which source elements it holds and where.                               *)
(***************************************************************************)
EXTENDS Integers, Sequences, FiniteSets, TLC

VARIABLES
    config,          \* the source config AutoConfig.from_pretrained loads
    checkpoint,      \* the source safetensors: <<[name, shape], ...>> as stored
    pc,              \* position in export_to_huggingface_granitemoehybrid
    original_config, \* the exported GraniteMoeHybridConfig
    state_dict,      \* the exported state dict: target name -> tensor
    tensors_read,    \* names of the source tensors read so far in this run
    save_path,       \* the names of the files written to save_path
    previous         \* what the previous run on the same source exported

vars == <<config, checkpoint, pc, original_config, state_dict, tensors_read,
          save_path, previous>>

---------------------------------------------------------------------------
(* Bounds of the model *)

MaxLayers == 2
\* head_dim and intermediate_size are drawn together, from 1..MaxSize
MaxSize == 2
NumExperts == 1
VocabSize == 1

\* <<num_attention_heads, num_key_value_heads>>: mha, mqa, gqa
HeadLayouts == {<<1, 1>>, <<2, 1>>, <<4, 2>>}

\* a sequence_mixer_type that is neither "mamba2" nor "softmax_attention"
OtherMixerType == "stickbreaking_attention"

---------------------------------------------------------------------------
(* Python values *)

None == [none |-> TRUE, v |-> 0]
Some(n) == [none |-> FALSE, v |-> n]

Range(s) == {s[i] : i \in 1..Len(s)}

RECURSIVE Prod(_)
Prod(shape) == IF shape = <<>> THEN 1 ELSE Head(shape) * Prod(Tail(shape))

---------------------------------------------------------------------------
(* Tensors *)

\* what a failed tensor operation leaves in place of a tensor
Raised == [shape |-> <<>>, data |-> <<>>]
IsRaised(t) == t.shape = <<>>

\* the number of elements one index step along dimension dim (0-based) spans
Inner(shape, dim) == Prod(SubSeq(shape, dim + 2, Len(shape)))

\* torch.Tensor.narrow(dim, start, length): the view chunk() and split() return
Narrow(t, dim, start, length) ==
    LET n == t.shape[dim + 1]
        inner == Inner(t.shape, dim)
        shape == [t.shape EXCEPT ![dim + 1] = length]
    IN  [shape |-> shape,
         data |-> [k \in 1..Prod(shape) |->
                     LET z == k - 1
                         i == z % inner
                         j == (z \div inner) % length
                         o == z \div (inner * length)
                     IN  t.data[(o * n + start + j) * inner + i + 1]]]

\* torch.cat([a, b], dim)
Cat(a, b, dim) ==
    LET na == a.shape[dim + 1]
        nb == b.shape[dim + 1]
        inner == Inner(a.shape, dim)
        shape == [a.shape EXCEPT ![dim + 1] = na + nb]
    IN  [shape |-> shape,
         data |-> [k \in 1..Prod(shape) |->
                     LET z == k - 1
                         i == z % inner
                         j == (z \div inner) % (na + nb)
                         o == z \div (inner * (na + nb))
                     IN  IF j < na
                         THEN a.data[(o * na + j) * inner + i + 1]
                         ELSE b.data[(o * nb + (j - na)) * inner + i + 1]]]

\* torch.Tensor.chunk(2, dim): chunks of ceil(n / 2) along dim, the last one
\* shorter; a single chunk when n = 1
Chunk2(t, dim) ==
    LET n == t.shape[dim + 1]
        size == (n + 1) \div 2
    IN  IF n - size > 0
        THEN <<Narrow(t, dim, 0, size), Narrow(t, dim, size, n - size)>>
        ELSE <<Narrow(t, dim, 0, n)>>

\* the mutant: torch.cat([y, y]) for torch.cat([y, x])
SplitAndReorderForGluDup(weight, dim) ==
    LET c == Chunk2(weight, dim)
    IN  IF Len(c) = 2 THEN Cat(c[2], c[2], dim) ELSE Raised

\* the mutant: torch.cat([x, y]), the halves left in place
SplitAndReorderForGluNoSwap(weight, dim) ==
    LET c == Chunk2(weight, dim)
    IN  IF Len(c) = 2 THEN Cat(c[1], c[2], dim) ELSE Raised

\* x, y = weight.chunk(2, dim); torch.cat([y, x], dim)
SplitAndReorderForGlu(weight, dim) ==
    LET c == Chunk2(weight, dim)
    IN  IF Len(c) = 2 THEN Cat(c[2], c[1], dim) ELSE Raised

---------------------------------------------------------------------------
(* ..modeling_utils: the attention head layout and the split of the fused  *)
(* query-key-value weight                                                  *)

\* Tensor.view(shape) / Tensor.reshape(shape): same elements, new shape
View(t, shape) ==
    IF IsRaised(t) \/ Prod(shape) # Len(t.data) THEN Raised
    ELSE [shape |-> shape, data |-> t.data]

\* Tensor.reshape(-1, *rest)
ReshapeRows(t, rest) ==
    IF IsRaised(t) \/ Len(t.data) % Prod(rest) # 0 THEN Raised
    ELSE View(t, <<Len(t.data) \div Prod(rest)>> \o rest)

\* Tensor.split(sizes, dim) for three sizes: they must add up to the dimension
Split3(t, sizes, dim) ==
    IF IsRaised(t) \/ sizes[1] + sizes[2] + sizes[3] # t.shape[dim + 1]
       \/ \E i \in 1..3 : sizes[i] < 0
    THEN <<Raised, Raised, Raised>>
    ELSE <<Narrow(t, dim, 0, sizes[1]),
           Narrow(t, dim, sizes[1], sizes[2]),
           Narrow(t, dim, sizes[1] + sizes[2], sizes[3])>>

\* Tensor.chunk(3, dim) unpacked into three names
Chunk3(t, dim) ==
    IF IsRaised(t) THEN <<Raised, Raised, Raised>>
    ELSE LET n == t.shape[dim + 1]
             size == (n + 2) \div 3
         IN  IF n - 2 * size > 0
             THEN Split3(t, <<size, size, n - 2 * size>>, dim)
             ELSE <<Raised, Raised, Raised>>

get_attention_head_type(num_heads, num_key_value_heads) ==
    IF num_heads = num_key_value_heads THEN "mha"
    ELSE IF num_key_value_heads = 1 THEN "mqa"
    ELSE "gqa"

split_query_key_value_tensor_for_mha(weight, num_heads, head_dim) ==
    LET rest == Tail(weight.shape)
        total == Len(weight.data)
        viewed == IF total % num_heads = 0
                  THEN View(weight, <<num_heads, total \div num_heads>>)
                  ELSE Raised
        qkv == Chunk3(viewed, 1)
    IN  <<ReshapeRows(qkv[1], rest), ReshapeRows(qkv[2], rest), ReshapeRows(qkv[3], rest)>>

split_query_key_value_tensor_for_gqa(weight, num_heads, num_key_value_heads, head_dim) ==
    LET rest == Tail(weight.shape)
        total == Len(weight.data)
        per_group == num_heads \div num_key_value_heads
        groups == num_key_value_heads * (per_group + 2)
        viewed == IF total % groups = 0
                  THEN View(weight, <<num_key_value_heads, per_group + 2, total \div groups>>)
                  ELSE Raised
        qkv == Split3(viewed, <<per_group, 1, 1>>, 1)
    IN  <<ReshapeRows(qkv[1], rest), ReshapeRows(qkv[2], rest), ReshapeRows(qkv[3], rest)>>

split_query_key_value_tensor_for_mqa(weight, num_heads, head_dim) ==
    Split3(weight, <<num_heads * head_dim, head_dim, head_dim>>, 0)

split_query_key_value_tensor_for_attention(weight, num_heads, num_key_value_heads, head_dim, attention_head_type) ==
    IF IsRaised(weight) THEN <<Raised, Raised, Raised>>
    ELSE IF attention_head_type = "mha"
    THEN split_query_key_value_tensor_for_mha(weight, num_heads, head_dim)
    ELSE IF attention_head_type = "gqa"
    THEN split_query_key_value_tensor_for_gqa(weight, num_heads, num_key_value_heads, head_dim)
    ELSE split_query_key_value_tensor_for_mqa(weight, num_heads, head_dim)

---------------------------------------------------------------------------
(* ...utils.SafeTensorsWeightsManager: tensors are looked up by name *)

has_tensor(ckpt, name) == \E i \in 1..Len(ckpt) : ckpt[i].name = name

TensorAt(ckpt, i) ==
    [shape |-> ckpt[i].shape,
     data |-> [k \in 1..Prod(ckpt[i].shape) |-> <<ckpt[i].name, k>>]]

get_tensor(ckpt, name) ==
    IF has_tensor(ckpt, name)
    THEN TensorAt(ckpt, CHOOSE i \in 1..Len(ckpt) : ckpt[i].name = name)
    ELSE Raised

---------------------------------------------------------------------------
(* Tensor names of the two schemas *)

SourceLayer(layer_idx, suffix) == "transformer.h." \o ToString(layer_idx) \o "." \o suffix
TargetLayer(layer_idx, suffix) == "model.layers." \o ToString(layer_idx) \o "." \o suffix

\* the sequence_mixer.* / mamba.* suffixes the two schemas share
MambaSuffixes ==
    {"conv1d.weight", "conv1d.bias", "in_proj.weight", "dt_bias", "A_log", "D",
     "out_proj.weight", "norm.weight"}

\* the empty dict
EmptyDict == <<>>

---------------------------------------------------------------------------
(* The source config (..models.GPTDolomiteConfig) *)

\* a block of sequence_mixer_blocks / mlp_blocks: a dict or an object
Block(kind, fields) == [kind |-> kind, fields |-> fields]

\* _get of _get_sequence_mixer_block_types: block.get(key) is None for a key
\* the dict lacks, getattr(block, key) is looked up as it is
Get(block, key) ==
    IF block.kind = "dict"
    THEN IF key \in DOMAIN block.fields THEN block.fields[key] ELSE "None"
    ELSE block.fields[key]

\* GPTDolomiteConfig.check_equal_for_all_and_get_value(key, key_block)
CheckEqualForAll(blocks, key_block) ==
    [ok |-> \A i \in 1..Len(blocks) : Get(blocks[i], key_block) = Get(blocks[1], key_block),
     value |-> Get(blocks[1], key_block)]

\* ... with an expected_value
CheckEqualForAllExpected(blocks, key_block, expected_value) ==
    CheckEqualForAll(blocks, key_block).ok
    /\ CheckEqualForAll(blocks, key_block).value = expected_value

\* GPTDolomiteConfig.check_equal_for_all_seq_mixer_and_get_value: the value
\* the blocks of one sequence_mixer_type share, None when there is no such block
CheckEqualForAllSeqMixer(blocks, sequence_mixer_type, key_block) ==
    LET of_type == SelectSeq(blocks, LAMBDA b : Get(b, "sequence_mixer_type") = sequence_mixer_type)
    IN  IF of_type = <<>> THEN [ok |-> TRUE, value |-> None]
        ELSE [ok |-> CheckEqualForAll(of_type, key_block).ok,
              value |-> Some(CheckEqualForAll(of_type, key_block).value)]

---------------------------------------------------------------------------
(* _get_sequence_mixer_block_types *)

\* the mutant: the elif for "softmax_attention" is missing
BlockTypeNoAttention(block_type) ==
    IF block_type = "mamba2" THEN "mamba" ELSE block_type

BlockType(block_type) ==
    IF block_type = "mamba2" THEN "mamba"
    ELSE IF block_type = "softmax_attention" THEN "attention"
    ELSE block_type

_get_sequence_mixer_block_types(cfg) ==
    [i \in 1..Len(cfg.sequence_mixer_blocks) |->
        BlockType(Get(cfg.sequence_mixer_blocks[i], "sequence_mixer_type"))]

---------------------------------------------------------------------------
(* _export_config_to_huggingface *)

\* the mutant: the check of mlp_type is missing
ConfigChecksNoMlpType(cfg) ==
    /\ cfg.normalization_function = "rmsnorm"
    /\ CheckEqualForAllExpected(cfg.sequence_mixer_blocks, "add_bias", FALSE)
    /\ CheckEqualForAllExpected(cfg.mlp_blocks, "add_bias", FALSE)
    /\ CheckEqualForAllExpected(cfg.mlp_blocks, "activation_function", "swiglu")

\* the assert and the four checks against an expected value
ConfigChecks(cfg) ==
    /\ cfg.normalization_function = "rmsnorm"
    /\ CheckEqualForAllExpected(cfg.sequence_mixer_blocks, "add_bias", FALSE)
    /\ CheckEqualForAllExpected(cfg.mlp_blocks, "add_bias", FALSE)
    /\ CheckEqualForAllExpected(cfg.mlp_blocks, "activation_function", "swiglu")
    /\ CheckEqualForAllExpected(cfg.mlp_blocks, "mlp_type", "MoE")

\* the checks whose value goes into the exported config
ConfigValuesAgree(cfg) ==
    /\ CheckEqualForAll(cfg.mlp_blocks, "shared_intermediate_size").ok
    /\ CheckEqualForAll(cfg.mlp_blocks, "intermediate_size").ok
    /\ CheckEqualForAll(cfg.mlp_blocks, "num_experts").ok
    /\ CheckEqualForAllSeqMixer(cfg.sequence_mixer_blocks, "softmax_attention", "num_attention_heads").ok
    /\ CheckEqualForAllSeqMixer(cfg.sequence_mixer_blocks, "softmax_attention", "num_key_value_heads").ok

GraniteMoeHybridConfig(cfg) ==
    LET shared_intermediate_size == CheckEqualForAll(cfg.mlp_blocks, "shared_intermediate_size").value
    IN  [vocab_size |-> cfg.vocab_size,
         hidden_size |-> cfg.hidden_size,
         num_hidden_layers |-> cfg.num_layers,
         num_attention_heads |->
             CheckEqualForAllSeqMixer(cfg.sequence_mixer_blocks, "softmax_attention",
                                      "num_attention_heads").value,
         shared_intermediate_size |->
             IF shared_intermediate_size.none THEN 0 ELSE shared_intermediate_size.v,
         num_key_value_heads |->
             CheckEqualForAllSeqMixer(cfg.sequence_mixer_blocks, "softmax_attention",
                                      "num_key_value_heads").value,
         intermediate_size |-> CheckEqualForAll(cfg.mlp_blocks, "intermediate_size").value,
         hidden_act |-> "silu",
         tie_word_embeddings |-> cfg.tie_word_embeddings,
         num_local_experts |-> CheckEqualForAll(cfg.mlp_blocks, "num_experts").value,
         layer_types |-> _get_sequence_mixer_block_types(cfg),
         normalization_function |-> cfg.normalization_function,
         architectures |-> <<"GraniteMoeHybridForCausalLM">>]

---------------------------------------------------------------------------
(* _export_state_dict_to_huggingface *)

\* the mutant: the first tensor of the file is taken for the embedding
EmbedTokensFirstStored(ckpt) == TensorAt(ckpt, 1)

EmbedTokens(ckpt) == get_tensor(ckpt, "transformer.wte.weight")

\* the mutant: ln_1 is read a second time where ln_2 is meant
PostAttentionLayernormLn1(ckpt, layer_idx) ==
    get_tensor(ckpt, SourceLayer(layer_idx, "ln_1.weight"))

PostAttentionLayernorm(ckpt, layer_idx) ==
    get_tensor(ckpt, SourceLayer(layer_idx, "ln_2.weight"))

\* embed_tokens, norm and, when the source has one, lm_head
TopLevelTensors(ckpt) ==
    ("model.embed_tokens.weight" :> EmbedTokens(ckpt))
    @@ ("model.norm.weight" :> get_tensor(ckpt, "transformer.ln_f.weight"))
    @@ (IF has_tensor(ckpt, "lm_head.weight")
        THEN "lm_head.weight" :> get_tensor(ckpt, "lm_head.weight")
        ELSE EmptyDict)

\* the mutant: the key of input_linear is written a second time
OutputLinearTargetInputLinear(layer_idx) ==
    TargetLayer(layer_idx, "block_sparse_moe.input_linear.weight")

\* the key mlp_block.c_proj.weight is exported under
OutputLinearTarget(layer_idx) ==
    TargetLayer(layer_idx, "block_sparse_moe.output_linear.weight")

\* the layer norms and the mixture-of-experts tensors of one layer; f @@ g
\* keeps f's value for a key of both, so the later assignment stands first
LayerMlpTensors(ckpt, layer_idx) ==
    (OutputLinearTarget(layer_idx)
        :> get_tensor(ckpt, SourceLayer(layer_idx, "mlp_block.c_proj.weight")))
    @@ (TargetLayer(layer_idx, "block_sparse_moe.input_linear.weight")
        :> SplitAndReorderForGlu(get_tensor(ckpt, SourceLayer(layer_idx, "mlp_block.c_fc.weight")), 1))
    @@ (TargetLayer(layer_idx, "block_sparse_moe.router.layer.weight")
        :> get_tensor(ckpt, SourceLayer(layer_idx, "mlp_block.gate.weight")))
    @@ (TargetLayer(layer_idx, "post_attention_layernorm.weight")
        :> PostAttentionLayernorm(ckpt, layer_idx))
    @@ (TargetLayer(layer_idx, "input_layernorm.weight")
        :> get_tensor(ckpt, SourceLayer(layer_idx, "ln_1.weight")))

MambaTensors(ckpt, layer_idx) ==
    [name \in {TargetLayer(layer_idx, "mamba." \o suffix) : suffix \in MambaSuffixes} |->
        LET suffix == CHOOSE x \in MambaSuffixes : TargetLayer(layer_idx, "mamba." \o x) = name
        IN  get_tensor(ckpt, SourceLayer(layer_idx, "sequence_mixer." \o suffix))]

AttentionTensors(ckpt, layer_idx, num_heads, num_key_value_heads, head_dim, attention_head_type) ==
    LET qkv == split_query_key_value_tensor_for_attention(
                   get_tensor(ckpt, SourceLayer(layer_idx, "sequence_mixer.c_attn.weight")),
                   num_heads, num_key_value_heads, head_dim, attention_head_type)
    IN  (TargetLayer(layer_idx, "self_attn.q_proj.weight") :> qkv[1])
        @@ (TargetLayer(layer_idx, "self_attn.k_proj.weight") :> qkv[2])
        @@ (TargetLayer(layer_idx, "self_attn.v_proj.weight") :> qkv[3])
        @@ (TargetLayer(layer_idx, "self_attn.o_proj.weight")
            :> get_tensor(ckpt, SourceLayer(layer_idx, "sequence_mixer.c_proj.weight")))

\* the if / elif on seq_mixer_block_types[layer_idx]: no else branch
SequenceMixerTensors(ckpt, layer_idx, block_type, num_heads, num_key_value_heads, head_dim, attention_head_type) ==
    IF block_type = "mamba" THEN MambaTensors(ckpt, layer_idx)
    ELSE IF block_type = "attention"
    THEN AttentionTensors(ckpt, layer_idx, num_heads, num_key_value_heads, head_dim,
                          attention_head_type)
    ELSE EmptyDict

SharedMlpTensors(ckpt, layer_idx) ==
    IF has_tensor(ckpt, SourceLayer(layer_idx, "mlp_block.c_fc_shared.weight"))
    THEN (TargetLayer(layer_idx, "shared_mlp.input_linear.weight")
            :> SplitAndReorderForGlu(
                   get_tensor(ckpt, SourceLayer(layer_idx, "mlp_block.c_fc_shared.weight")), 0))
         @@ (TargetLayer(layer_idx, "shared_mlp.output_linear.weight")
            :> get_tensor(ckpt, SourceLayer(layer_idx, "mlp_block.c_proj_shared.weight")))
    ELSE EmptyDict

\* the first n iterations of the loop over range(num_layers), the later
\* assignments first
RECURSIVE LayersTensors(_, _, _, _, _, _, _)
LayersTensors(ckpt, n, seq_mixer_block_types, num_heads, num_key_value_heads, head_dim, attention_head_type) ==
    IF n = 0 THEN EmptyDict
    ELSE SharedMlpTensors(ckpt, n - 1)
         @@ SequenceMixerTensors(ckpt, n - 1, seq_mixer_block_types[n], num_heads,
                                 num_key_value_heads, head_dim, attention_head_type)
         @@ LayerMlpTensors(ckpt, n - 1)
         @@ LayersTensors(ckpt, n - 1, seq_mixer_block_types, num_heads, num_key_value_heads,
                          head_dim, attention_head_type)

_export_state_dict_to_huggingface(ckpt, num_layers, seq_mixer_block_types, num_heads, num_key_value_heads, head_dim) ==
    LayersTensors(ckpt, num_layers, seq_mixer_block_types, num_heads, num_key_value_heads,
                  head_dim, get_attention_head_type(num_heads, num_key_value_heads))
    @@ TopLevelTensors(ckpt)

\* get_tensor or a tensor operation raised while the state dict was built
HasRaised(sd) == \E key \in DOMAIN sd : IsRaised(sd[key])

\* the source tensors a state dict holds elements of
SourcesOf(sd) ==
    UNION {{sd[key].data[k][1] : k \in 1..Len(sd[key].data)} : key \in DOMAIN sd}

---------------------------------------------------------------------------
(* The inputs: a source config and the checkpoint saved with it *)

MixerTypes == {"softmax_attention", "mamba2", OtherMixerType}

\* what a block of sequence_mixer_blocks holds
SequenceMixerFields(sequence_mixer_type, add_bias, layout) ==
    IF sequence_mixer_type = "mamba2"
    THEN [sequence_mixer_type |-> sequence_mixer_type, add_bias |-> add_bias]
    ELSE [sequence_mixer_type |-> sequence_mixer_type, add_bias |-> add_bias,
          num_attention_heads |-> layout[1], num_key_value_heads |-> layout[2]]

\* the fields of the config a defect sets to a value the export refuses
Defects ==
    {"none", "normalization_function", "sequence_mixer_blocks.add_bias",
     "mlp_blocks.add_bias", "activation_function", "mlp_type"}

SourceConfig(types, kind, layout, head_dim, inter, shared, tie, defect, at) ==
    [normalization_function |->
         IF defect = "normalization_function" THEN "layernorm" ELSE "rmsnorm",
     vocab_size |-> VocabSize,
     num_layers |-> Len(types),
     hidden_size |-> layout[1] * head_dim,
     tie_word_embeddings |-> tie,
     sequence_mixer_blocks |->
         [i \in 1..Len(types) |->
             Block(kind, SequenceMixerFields(
                 types[i], defect = "sequence_mixer_blocks.add_bias" /\ i = at, layout))],
     mlp_blocks |->
         [i \in 1..Len(types) |->
             Block(kind,
                   [mlp_type |-> IF defect = "mlp_type" /\ i = at THEN "MLP" ELSE "MoE",
                    activation_function |->
                        IF defect = "activation_function" /\ i = at THEN "gelu" ELSE "swiglu",
                    add_bias |-> defect = "mlp_blocks.add_bias" /\ i = at,
                    intermediate_size |-> inter,
                    shared_intermediate_size |-> IF shared THEN Some(inter) ELSE None,
                    num_experts |-> NumExperts])]]

Entry(name, shape) == [name |-> name, shape |-> shape]

MambaSuffixSeq ==
    <<"conv1d.weight", "conv1d.bias", "in_proj.weight", "dt_bias", "A_log", "D",
      "out_proj.weight", "norm.weight">>

\* the tensors of one sequence mixer, as the source model names them
SequenceMixerEntries(layer_idx, sequence_mixer_type, layout, head_dim) ==
    LET hidden == layout[1] * head_dim
    IN  IF sequence_mixer_type = "mamba2"
        THEN [j \in 1..Len(MambaSuffixSeq) |->
                 Entry(SourceLayer(layer_idx, "sequence_mixer." \o MambaSuffixSeq[j]),
                       IF j \in {3, 7} THEN <<2, hidden>> ELSE <<2>>)]
        ELSE <<Entry(SourceLayer(layer_idx, "sequence_mixer.c_attn.weight"),
                     <<(layout[1] + 2 * layout[2]) * head_dim, hidden>>),
               Entry(SourceLayer(layer_idx, "sequence_mixer.c_proj.weight"),
                     <<hidden, hidden>>)>>

LayerEntries(layer_idx, sequence_mixer_type, layout, head_dim, inter, shared) ==
    LET hidden == layout[1] * head_dim
    IN  <<Entry(SourceLayer(layer_idx, "ln_1.weight"), <<hidden>>)>>
        \o SequenceMixerEntries(layer_idx, sequence_mixer_type, layout, head_dim)
        \o <<Entry(SourceLayer(layer_idx, "ln_2.weight"), <<hidden>>),
             Entry(SourceLayer(layer_idx, "mlp_block.gate.weight"), <<NumExperts, hidden>>),
             Entry(SourceLayer(layer_idx, "mlp_block.c_fc.weight"),
                   <<NumExperts, 2 * inter, hidden>>),
             Entry(SourceLayer(layer_idx, "mlp_block.c_proj.weight"),
                   <<NumExperts, hidden, inter>>)>>
        \o (IF shared
            THEN <<Entry(SourceLayer(layer_idx, "mlp_block.c_fc_shared.weight"),
                         <<2 * inter, hidden>>),
                   Entry(SourceLayer(layer_idx, "mlp_block.c_proj_shared.weight"),
                         <<hidden, inter>>)>>
            ELSE <<>>)

RECURSIVE LayersEntries(_, _, _, _, _, _)
LayersEntries(n, types, layout, head_dim, inter, shared) ==
    IF n = 0 THEN <<>>
    ELSE LayersEntries(n - 1, types, layout, head_dim, inter, shared)
         \o LayerEntries(n - 1, types[n], layout, head_dim, inter, shared)

\* the checkpoint the source model saves: the tensors of its state dict
SourceCheckpoint(types, layout, head_dim, inter, shared, tie) ==
    LET hidden == layout[1] * head_dim
    IN  <<Entry("transformer.wte.weight", <<VocabSize, hidden>>)>>
        \o LayersEntries(Len(types), types, layout, head_dim, inter, shared)
        \o <<Entry("transformer.ln_f.weight", <<hidden>>)>>
        \o (IF tie THEN <<>> ELSE <<Entry("lm_head.weight", <<VocabSize, hidden>>)>>)

Reverse(s) == [i \in 1..Len(s) |-> s[Len(s) + 1 - i]]

---------------------------------------------------------------------------
(* export_to_huggingface_granitemoehybrid *)

NoConfig == <<>>

Init ==
    /\ \E n \in 1..MaxLayers :
       \E types \in [1..n -> MixerTypes], kind \in {"dict", "object"},
          layout \in HeadLayouts, head_dim \in 1..MaxSize, inter \in 1..MaxSize,
          shared \in BOOLEAN, tie \in BOOLEAN, defect \in Defects, at \in 1..n :
            /\ inter = head_dim
            \* a config the export refuses is drawn at the smallest sizes
            /\ defect # "none" => head_dim = 1 /\ ~shared /\ ~tie
            /\ defect \in {"none", "normalization_function"} => at = 1
            /\ config = SourceConfig(types, kind, layout, head_dim, inter, shared, tie,
                                     defect, at)
            /\ checkpoint = SourceCheckpoint(types, layout, head_dim, inter, shared, tie)
    /\ pc = "start"
    /\ original_config = NoConfig
    /\ state_dict = EmptyDict
    /\ tensors_read = {}
    /\ save_path = {}
    /\ previous = <<>>

\* the mutant: hidden_size // num_key_value_heads
HeadDimByKeyValueHeads(exported) == exported.hidden_size \div exported.num_key_value_heads.v

\* head_dim = original_config.hidden_size // original_config.num_attention_heads
HeadDim(exported) == exported.hidden_size \div exported.num_attention_heads.v

\* config = AutoConfig.from_pretrained(...); _export_config_to_huggingface(config),
\* all checks passing
ExportConfig ==
    /\ pc = "start"
    /\ ConfigChecks(config) /\ ConfigValuesAgree(config)
    /\ original_config' = GraniteMoeHybridConfig(config)
    /\ pc' = "config_exported"
    /\ UNCHANGED <<config, checkpoint, state_dict, tensors_read, save_path, previous>>

\* ... the assert or a check raising
ExportConfigRaises ==
    /\ pc = "start"
    /\ ~(ConfigChecks(config) /\ ConfigValuesAgree(config))
    /\ pc' = "config_error"
    /\ UNCHANGED <<config, checkpoint, original_config, state_dict, tensors_read,
                   save_path, previous>>

\* ... the library's GraniteMoeHybridConfig raising: a transformers release that
\* validates layer_types accepts "mamba" and "attention" only
ExportConfigRejected ==
    /\ pc = "start"
    /\ ConfigChecks(config) /\ ConfigValuesAgree(config)
    /\ \E i \in 1..Len(config.sequence_mixer_blocks) :
           _get_sequence_mixer_block_types(config)[i] \notin {"mamba", "attention"}
    /\ pc' = "config_error"
    /\ UNCHANGED <<config, checkpoint, original_config, state_dict, tensors_read,
                   save_path, previous>>

\* SafeTensorsWeightsManager(...); _export_state_dict_to_huggingface(...)
ExportStateDict ==
    /\ pc = "config_exported"
    /\ IF original_config.num_attention_heads.none
       THEN \* hidden_size // None, raised as the arguments are evaluated
            /\ pc' = "state_dict_error"
            /\ UNCHANGED <<state_dict, tensors_read>>
       ELSE LET exported == _export_state_dict_to_huggingface(
                                checkpoint, config.num_layers,
                                _get_sequence_mixer_block_types(config),
                                original_config.num_attention_heads.v,
                                original_config.num_key_value_heads.v,
                                HeadDim(original_config))
            IN  /\ tensors_read' = SourcesOf(exported)
                /\ IF HasRaised(exported)
                   THEN pc' = "state_dict_error" /\ UNCHANGED state_dict
                   ELSE pc' = "state_dict_exported" /\ state_dict' = exported
    /\ UNCHANGED <<config, checkpoint, original_config, save_path, previous>>

\* SafeTensorsWeightsManager.save_state_dict(state_dict, save_path)
SaveStateDict ==
    /\ pc = "state_dict_exported"
    /\ save_path' = save_path \cup {"model.safetensors"}
    /\ pc' = "weights_saved"
    /\ UNCHANGED <<config, checkpoint, original_config, state_dict, tensors_read, previous>>

\* original_config.save_pretrained(save_path)
SaveConfig ==
    /\ pc = "weights_saved"
    /\ save_path' = save_path \cup {"config.json"}
    /\ pc' = "config_saved"
    /\ UNCHANGED <<config, checkpoint, original_config, state_dict, tensors_read, previous>>

\* GenerationConfig.from_model_config(original_config).save_pretrained(save_path)
SaveGenerationConfig ==
    /\ pc = "config_saved"
    /\ save_path' = save_path \cup {"generation_config.json"}
    /\ pc' = "generation_config_saved"
    /\ UNCHANGED <<config, checkpoint, original_config, state_dict, tensors_read, previous>>

\* try: AutoTokenizer.from_pretrained(...).save_pretrained(...) except: pass
SaveTokenizer ==
    /\ pc = "generation_config_saved"
    /\ \E loaded \in BOOLEAN :
         save_path' = IF loaded THEN save_path \cup {"tokenizer.json"} ELSE save_path
    /\ pc' = "done"
    /\ UNCHANGED <<config, checkpoint, original_config, state_dict, tensors_read, previous>>

\* the export is run a second time on the same source, whose file stores the
\* same tensors in another order, into a save_path that is empty again
Rerun ==
    /\ pc = "done"
    /\ previous = <<>>
    /\ previous' = <<[state_dict |-> state_dict, original_config |-> original_config]>>
    /\ checkpoint' = Reverse(checkpoint)
    /\ pc' = "start"
    /\ original_config' = NoConfig
    /\ state_dict' = EmptyDict
    /\ tensors_read' = {}
    /\ save_path' = {}
    /\ UNCHANGED config

Next ==
    \/ ExportConfig
    \/ ExportConfigRaises
    \/ ExportConfigRejected
    \/ ExportStateDict
    \/ SaveStateDict
    \/ SaveConfig
    \/ SaveGenerationConfig
    \/ SaveTokenizer
    \/ Rerun

Spec == Init /\ [][Next]_vars

---------------------------------------------------------------------------
(* Vocabulary of the properties *)

\* _export_state_dict_to_huggingface has just returned the state dict, which
\* no later step of the run changes
Exported == pc = "state_dict_exported"

\* the run has an exported config
ConfigExported == pc \notin {"start", "config_error"}

LayerIndices == 0..(config.num_layers - 1)

InCheckpoint(name) == \E i \in 1..Len(checkpoint) : checkpoint[i].name = name

\* the source tensor of that name, as the checkpoint holds it
Original(name) ==
    LET shape == (CHOOSE e \in Range(checkpoint) : e.name = name).shape
    IN  [shape |-> shape, data |-> [k \in 1..Prod(shape) |-> <<name, k>>]]

SourcesOfTensor(t) == {t.data[k][1] : k \in 1..Len(t.data)}

\* the target names whose tensor holds elements of the source tensor `name`
TargetsOf(name) ==
    {key \in DOMAIN state_dict : name \in SourcesOfTensor(state_dict[key])}

\* the same, where every exported tensor holds elements of one source tensor
TargetsFrom(name) ==
    {key \in DOMAIN state_dict : state_dict[key].data[1][1] = name}

\* the source sequence_mixer_type of a layer, read off the config's block
MixerTypeOf(layer_idx) ==
    config.sequence_mixer_blocks[layer_idx + 1].fields.sequence_mixer_type

HasMixer(sequence_mixer_type) ==
    \E i \in LayerIndices : MixerTypeOf(i) = sequence_mixer_type

MambaTargets(layer_idx) == {TargetLayer(layer_idx, "mamba." \o x) : x \in MambaSuffixes}

AttentionTargets(layer_idx) ==
    {TargetLayer(layer_idx, "self_attn." \o x \o "_proj.weight") : x \in {"q", "k", "v", "o"}}

\* the rows of a tensor: its slices along dimension 0, as a list
RowsOf(t) ==
    LET width == Inner(t.shape, 0)
    IN  [r \in 1..t.shape[1] |-> SubSeq(t.data, (r - 1) * width + 1, r * width)]

---------------------------------------------------------------------------
(* C1 *)

\* C1, as stated: the remapping is bijective: every tensor of the source
\* checkpoint is exported under exactly one target name and every target name
\* derives from exactly one source tensor.
C1_Bijective ==
    Exported =>
        /\ \A e \in Range(checkpoint) : Cardinality(TargetsOf(e.name)) = 1
        /\ \A key \in DOMAIN state_dict :
               Cardinality(SourcesOfTensor(state_dict[key])) = 1

\* the number of target names a source tensor is exported under
NamesExportedUnder(name) ==
    IF \E i \in LayerIndices :
           /\ MixerTypeOf(i) = "softmax_attention"
           /\ name = SourceLayer(i, "sequence_mixer.c_attn.weight")
    THEN 3
    ELSE IF \E i \in LayerIndices :
           /\ MixerTypeOf(i) \notin {"softmax_attention", "mamba2"}
           /\ name \in {SourceLayer(i, "sequence_mixer.c_attn.weight"),
                        SourceLayer(i, "sequence_mixer.c_proj.weight")}
    THEN 0
    ELSE 1

\* C1, amended: the remapping is injective on names, not bijective: every
\* target name derives from exactly one source tensor and no two source
\* tensors share a target name; a source tensor is exported under exactly one
\* target name, except the fused sequence_mixer.c_attn.weight of an attention
\* layer, exported under three (q_proj, k_proj, v_proj), and the
\* sequence_mixer tensors of a layer that is neither mamba nor attention,
\* exported under none.
C1_InjectiveRemap ==
    Exported =>
        /\ \A key \in DOMAIN state_dict :
               /\ Cardinality(SourcesOfTensor(state_dict[key])) = 1
               /\ SourcesOfTensor(state_dict[key]) \subseteq {e.name : e \in Range(checkpoint)}
        /\ \A e \in Range(checkpoint) :
               Cardinality(TargetsFrom(e.name)) = NamesExportedUnder(e.name)

C1_Witness ==
    /\ Exported
    /\ HasMixer("softmax_attention") /\ HasMixer("mamba2")
    /\ Cardinality(TargetsOf(SourceLayer(0, "sequence_mixer.c_attn.weight"))) = 3

---------------------------------------------------------------------------
(* C2 *)

\* the target name is in the state dict and holds the source tensor as it is
RenamedFrom(target, source) ==
    /\ target \in DOMAIN state_dict
    /\ InCheckpoint(source)
    /\ state_dict[target] = Original(source)

\* C2: direct renaming leaves the tensor unchanged: embed_tokens and norm, and
\* for every layer the two layer norms, the router and output_linear, the
\* eight mamba tensors of a mamba layer and o_proj of an attention layer, are
\* the source tensors of the corresponding names; lm_head.weight is exported,
\* unchanged, exactly when the source has it.
C2_DirectRenameUnchanged ==
    Exported =>
        /\ RenamedFrom("model.embed_tokens.weight", "transformer.wte.weight")
        /\ RenamedFrom("model.norm.weight", "transformer.ln_f.weight")
        /\ ("lm_head.weight" \in DOMAIN state_dict) <=> InCheckpoint("lm_head.weight")
        /\ InCheckpoint("lm_head.weight") => RenamedFrom("lm_head.weight", "lm_head.weight")
        /\ \A i \in LayerIndices :
            /\ RenamedFrom(TargetLayer(i, "input_layernorm.weight"),
                           SourceLayer(i, "ln_1.weight"))
            /\ RenamedFrom(TargetLayer(i, "post_attention_layernorm.weight"),
                           SourceLayer(i, "ln_2.weight"))
            /\ RenamedFrom(TargetLayer(i, "block_sparse_moe.router.layer.weight"),
                           SourceLayer(i, "mlp_block.gate.weight"))
            /\ RenamedFrom(TargetLayer(i, "block_sparse_moe.output_linear.weight"),
                           SourceLayer(i, "mlp_block.c_proj.weight"))
            /\ MixerTypeOf(i) = "mamba2" =>
                   \A suffix \in MambaSuffixes :
                       RenamedFrom(TargetLayer(i, "mamba." \o suffix),
                                   SourceLayer(i, "sequence_mixer." \o suffix))
            /\ MixerTypeOf(i) = "softmax_attention" =>
                   RenamedFrom(TargetLayer(i, "self_attn.o_proj.weight"),
                               SourceLayer(i, "sequence_mixer.c_proj.weight"))

C2_Witness ==
    /\ Exported
    /\ config.num_layers = 2
    /\ MixerTypeOf(0) = "mamba2" /\ MixerTypeOf(1) = "softmax_attention"
    /\ "lm_head.weight" \in DOMAIN state_dict
    /\ state_dict[TargetLayer(1, "post_attention_layernorm.weight")].data[1]
           = <<SourceLayer(1, "ln_2.weight"), 1>>

---------------------------------------------------------------------------
(* C3 *)

\* C3: for every attention layer the fused c_attn.weight is split so that
\* q_proj, k_proj and v_proj partition its rows: q_proj has
\* num_attention_heads * head_dim rows, k_proj and v_proj have
\* num_key_value_heads * head_dim rows each, with head_dim = hidden_size //
\* num_attention_heads of the exported config, and every row of the fused
\* tensor is a row of exactly one of the three; the split does not fail.
C3_QkvSplitPartitionsRows ==
    /\ pc = "state_dict_error" => ~HasMixer("softmax_attention")
    /\ Exported =>
        \A i \in LayerIndices : MixerTypeOf(i) = "softmax_attention" =>
            LET fused == Original(SourceLayer(i, "sequence_mixer.c_attn.weight"))
                q == state_dict[TargetLayer(i, "self_attn.q_proj.weight")]
                k == state_dict[TargetLayer(i, "self_attn.k_proj.weight")]
                v == state_dict[TargetLayer(i, "self_attn.v_proj.weight")]
                num_heads == original_config.num_attention_heads.v
                num_key_value_heads == original_config.num_key_value_heads.v
                head_dim == original_config.hidden_size \div num_heads
            IN  /\ q.shape = <<num_heads * head_dim>> \o Tail(fused.shape)
                /\ k.shape = <<num_key_value_heads * head_dim>> \o Tail(fused.shape)
                /\ v.shape = k.shape
                /\ q.shape[1] + k.shape[1] + v.shape[1] = fused.shape[1]
                /\ Range(RowsOf(q)) \cup Range(RowsOf(k)) \cup Range(RowsOf(v))
                       = Range(RowsOf(fused))
                /\ Cardinality(Range(RowsOf(fused))) = fused.shape[1]

\* a grouped-query layer with head_dim 2: the first key row is not the row
\* that follows the query rows of all heads
C3_Witness ==
    /\ Exported
    /\ MixerTypeOf(0) = "softmax_attention"
    /\ original_config.num_attention_heads.v = 4
    /\ original_config.num_key_value_heads.v = 2
    /\ original_config.hidden_size = 8
    /\ state_dict[TargetLayer(0, "self_attn.k_proj.weight")].data[1]
           = <<SourceLayer(0, "sequence_mixer.c_attn.weight"), 4 * 8 + 1>>

---------------------------------------------------------------------------
(* C4, C6 *)

\* the flat position (1-based) of index <<o, j, i>> in a tensor whose
\* dimension dim has n steps of `inner` elements each
Position(o, j, i, n, inner) == (o * n + j) * inner + i + 1

\* `swapped` is `weight` with its two halves along dim exchanged: same shape,
\* and the element at step j along dim is the element of weight at step
\* j + n/2 (first half) or j - n/2 (second half), all other indices equal
HalvesSwapped(swapped, weight, dim) ==
    LET n == weight.shape[dim + 1]
        inner == Inner(weight.shape, dim)
        outer == Prod(SubSeq(weight.shape, 1, dim))
    IN  /\ swapped.shape = weight.shape
        /\ n % 2 = 0
        /\ \A o \in 0..(outer - 1), j \in 0..(n - 1), i \in 0..(inner - 1) :
               swapped.data[Position(o, j, i, n, inner)]
                   = weight.data[Position(o, IF j < n \div 2 THEN j + n \div 2
                                             ELSE j - n \div 2, i, n, inner)]

\* C4: _split_and_reorder_for_glu swaps the two halves of the weight along
\* dim, leaving the shape and the other dimensions as they are; it is applied
\* along dim 1 to each layer's mlp_block.c_fc.weight, exported as
\* block_sparse_moe.input_linear.weight, and along dim 0 to
\* mlp_block.c_fc_shared.weight, exported as shared_mlp.input_linear.weight.
C4_GluHalvesSwapped ==
    Exported =>
        \A i \in LayerIndices :
            /\ TargetLayer(i, "block_sparse_moe.input_linear.weight") \in DOMAIN state_dict
            /\ HalvesSwapped(state_dict[TargetLayer(i, "block_sparse_moe.input_linear.weight")],
                             Original(SourceLayer(i, "mlp_block.c_fc.weight")), 1)
            /\ InCheckpoint(SourceLayer(i, "mlp_block.c_fc_shared.weight")) =>
                   /\ TargetLayer(i, "shared_mlp.input_linear.weight") \in DOMAIN state_dict
                   /\ HalvesSwapped(
                          state_dict[TargetLayer(i, "shared_mlp.input_linear.weight")],
                          Original(SourceLayer(i, "mlp_block.c_fc_shared.weight")), 0)

C4_Witness ==
    /\ Exported
    /\ InCheckpoint(SourceLayer(0, "mlp_block.c_fc_shared.weight"))
    /\ Original(SourceLayer(0, "mlp_block.c_fc.weight")).shape[2] = 4
    /\ state_dict[TargetLayer(0, "shared_mlp.input_linear.weight")]
           # Original(SourceLayer(0, "mlp_block.c_fc_shared.weight"))
    /\ state_dict[TargetLayer(0, "block_sparse_moe.input_linear.weight")]
           # Original(SourceLayer(0, "mlp_block.c_fc.weight"))

\* C6: the swap is its own inverse on a weight whose size along dim is even:
\* applied to an exported input_linear weight along the same dim, it gives
\* back the source weight.
C6_GluSwapInvolution ==
    Exported =>
        \A i \in LayerIndices :
            /\ Original(SourceLayer(i, "mlp_block.c_fc.weight")).shape[2] % 2 = 0
            /\ SplitAndReorderForGlu(
                   state_dict[TargetLayer(i, "block_sparse_moe.input_linear.weight")], 1)
                   = Original(SourceLayer(i, "mlp_block.c_fc.weight"))
            /\ InCheckpoint(SourceLayer(i, "mlp_block.c_fc_shared.weight")) =>
                   SplitAndReorderForGlu(
                       state_dict[TargetLayer(i, "shared_mlp.input_linear.weight")], 0)
                       = Original(SourceLayer(i, "mlp_block.c_fc_shared.weight"))

C6_Witness ==
    /\ Exported
    /\ config.num_layers = 2
    /\ InCheckpoint(SourceLayer(1, "mlp_block.c_fc_shared.weight"))
    /\ Original(SourceLayer(1, "mlp_block.c_fc_shared.weight")).shape[1] = 4
    /\ SplitAndReorderForGlu(Original(SourceLayer(1, "mlp_block.c_fc_shared.weight")), 0)
           = state_dict[TargetLayer(1, "shared_mlp.input_linear.weight")]
    /\ state_dict[TargetLayer(1, "shared_mlp.input_linear.weight")]
           # Original(SourceLayer(1, "mlp_block.c_fc_shared.weight"))

---------------------------------------------------------------------------
(* C5 *)

---------------------------------------------------------------------------
(* C7 *)

\* C7: layer_types has one entry per block of sequence_mixer_blocks, in order:
\* "mamba" for "mamba2", "attention" for "softmax_attention", any other
\* sequence_mixer_type as it is, whether the blocks are dicts or objects.
C7_BlockTypesMapped ==
    ConfigExported =>
        /\ Len(original_config.layer_types) = Len(config.sequence_mixer_blocks)
        /\ \A i \in 1..Len(config.sequence_mixer_blocks) :
               LET block == config.sequence_mixer_blocks[i]
                   sequence_mixer_type == block.fields.sequence_mixer_type
               IN  /\ block.kind \in {"dict", "object"}
                   /\ original_config.layer_types[i] =
                          CASE sequence_mixer_type = "mamba2" -> "mamba"
                            [] sequence_mixer_type = "softmax_attention" -> "attention"
                            [] OTHER -> sequence_mixer_type

C7_Witness ==
    /\ ConfigExported
    /\ config.num_layers = 2
    /\ config.sequence_mixer_blocks[1].kind = "dict"
    /\ original_config.layer_types = <<"attention", OtherMixerType>>

---------------------------------------------------------------------------
(* C8 *)

\* C8, as stated: for every layer the exported state dict holds exactly one
\* of the two sequence-mixer tensor sets, the eight mamba tensors when the
\* exported layer_types says "mamba" and the four self_attn projections when
\* it says "attention"; no layer has both and no layer has neither.
C8_EveryLayerHasOneMixerSet ==
    Exported =>
        \A i \in LayerIndices :
            LET has_mamba == MambaTargets(i) \subseteq DOMAIN state_dict
                has_attention == AttentionTargets(i) \subseteq DOMAIN state_dict
            IN  /\ has_mamba # has_attention
                /\ has_mamba => AttentionTargets(i) \cap DOMAIN state_dict = {}
                /\ has_attention => MambaTargets(i) \cap DOMAIN state_dict = {}
                /\ original_config.layer_types[i + 1] = "mamba" => has_mamba
                /\ original_config.layer_types[i + 1] = "attention" => has_attention

---------------------------------------------------------------------------
(* C9 *)

\* the source config fails a check of _export_config_to_huggingface
FailsValidation ==
    \/ config.normalization_function # "rmsnorm"
    \/ \E i \in 1..Len(config.sequence_mixer_blocks) :
           config.sequence_mixer_blocks[i].fields.add_bias # FALSE
    \/ \E i \in 1..Len(config.mlp_blocks) :
           \/ config.mlp_blocks[i].fields.add_bias # FALSE
           \/ config.mlp_blocks[i].fields.activation_function # "swiglu"
           \/ config.mlp_blocks[i].fields.mlp_type # "MoE"

\* C9: when the source config fails validation the run ends with an error
\* before a source tensor is read and before anything is written to
\* save_path: no weights, config, generation config or tokenizer file.
C9_InvalidConfigWritesNothing ==
    FailsValidation =>
        /\ pc \in {"start", "config_error"}
        /\ tensors_read = {}
        /\ state_dict = EmptyDict
        /\ save_path = {}

C9_Witness ==
    /\ pc = "config_error"
    /\ FailsValidation
    /\ config.num_layers = 2
    /\ config.mlp_blocks[2].fields.mlp_type = "MLP"
    /\ save_path = {}

====
